---- MODULE Spec2Model ----
(***************************************************************************)
(* Model of src/main.py: the authenticated code-runner API.                *)
(*                                                                         *)
(* State: the credential file /tmp/users.json, the staged script           *)
(* /tmp/temp_script.py, the clock, the tokens handed out by login, and     *)
(* one record per in-flight HTTP request (its inputs, its position in the  *)
(* handler, its local variables, its child process and its response).      *)
(* FastAPI runs each `def` handler on a worker thread, so handlers         *)
(* interleave at every access to the two files.                            *)
(***************************************************************************)
EXTENDS Integers, FiniteSets, Sequences, TLC

\* ---------------------------------------------------------------- bounds
MaxTime == 36          \* the clock (in hours) stops advancing beyond MaxTime
TickHours == 12        \* hours that pass between two observations of the clock
MaxBoots == 2          \* process starts (each runs init_default_user)
MaxLogins == 1         \* login requests
MaxVerifies == 1       \* /api/auth/verify requests
MaxCreates == 2        \* create-user requests
MaxExecs == 2          \* execute requests
MaxBrowses == 1        \* repository-browsing requests
MaxPublics == 1        \* requests to / and /health
NumSalts == 2          \* distinct values bcrypt.gensalt() may return

\* ------------------------------------------------------ program constants
ACCESS_TOKEN_EXPIRE_HOURS == 24
DEFAULT_TIMEOUT == 10
SECRET_KEY == "your-secret-key-change-this-in-production"
OTHER_KEY == "some-other-key"
default_username == "admin"
default_password == "admin123"

None == "None"
Usernames == {"admin", "alice", "bob"}
Passwords == {"admin123", "pw"}
Salts == 1..NumSalts
\* Requests are numbered by route.
LoginReqs == 1..MaxLogins
VerifyReqs == 11..(10 + MaxVerifies)
CreateReqs == 21..(20 + MaxCreates)
ExecReqs == 31..(30 + MaxExecs)
BrowseReqs == 41..(40 + MaxBrowses)
PublicReqs == 51..(50 + MaxPublics)
AllReqs == LoginReqs \cup VerifyReqs \cup CreateReqs \cup ExecReqs
           \cup BrowseReqs \cup PublicReqs

\* ------------------------------------------------------ bcrypt (lines 62, 104, 181)
\* hashpw embeds the salt in the hash; checkpw re-hashes the candidate with
\* the salt of the stored hash and compares.
hashpw(password, salt) == <<salt, password>>

verify_password(plain_password, hashed_password) ==
    hashpw(plain_password, hashed_password[1]) = hashed_password

\* ------------------------------------------------------ jwt (PyJWT, `import jwt`)
\* A token is its payload and the key that signed it.
jwt_encode(payload, key) == [sub |-> payload.sub, exp |-> payload.exp, sig |-> key]

\* jwt.decode: the signature is checked first, then the exp claim
\* (expired when exp <= now).
jwt_decode(token, key, t) ==
    IF token.sig # key THEN [raises |-> "InvalidSignatureError", sub |-> None]
    ELSE IF token.exp <= t THEN [raises |-> "ExpiredSignatureError", sub |-> None]
    ELSE [raises |-> "none", sub |-> token.sub]

\* The exception classes the jwt module exports.  `except jwt.X` evaluates
\* the attribute X when an exception reaches that clause; PyJWT has no
\* attribute JWTError (that name belongs to python-jose).
JwtAttributes == {"PyJWTError", "InvalidTokenError", "DecodeError",
                  "InvalidSignatureError", "ExpiredSignatureError"}

\* Variant: the token lives one hour less than ACCESS_TOKEN_EXPIRE_HOURS.
create_access_token_short(data, t) ==
    jwt_encode([sub |-> data.sub, exp |-> t + ACCESS_TOKEN_EXPIRE_HOURS - 1], SECRET_KEY)

create_access_token(data, t) ==
    jwt_encode([sub |-> data.sub, exp |-> t + ACCESS_TOKEN_EXPIRE_HOURS], SECRET_KEY)

\* verify_token: what the dependency hands to the route, as the HTTP
\* status it produces (200: the handler runs with `username`).
verify_token(token, t) ==
    LET d == jwt_decode(token, SECRET_KEY, t)
        raised == IF d.raises # "none" THEN d.raises
                  ELSE IF d.sub = None THEN "HTTPException"   \* line 121
                  ELSE "none"
    IN  IF raised = "none"
          THEN [status |-> 200, detail |-> "", username |-> d.sub]
        ELSE IF raised = "ExpiredSignatureError"                \* line 123
          THEN [status |-> 401, detail |-> "Token expired", username |-> None]
        ELSE IF "JWTError" \notin JwtAttributes                 \* line 125
          THEN [status |-> 500, detail |-> "Internal Server Error", username |-> None]
        ELSE [status |-> 401, detail |-> "Invalid token", username |-> None]

\* ------------------------------------------------------ credential file
\* /tmp/users.json is absent, empty (just truncated by open(..., 'w')),
\* a complete JSON mapping, or corrupt (a shorter dump written over a
\* longer one by a second writer).  size is its length in bytes.
NameLen(u) == CASE u = "bob" -> 3 [] OTHER -> 5

RECURSIVE json_len_entries(_, _)
json_len_entries(users, names) ==
    IF names = {} THEN 0
    ELSE LET u == CHOOSE x \in names : TRUE
             rec == users[u]
             own == 2 * NameLen(u) + 145
                    + (IF rec.created_by = None THEN 0 ELSE NameLen(rec.created_by) + 18)
         IN  own + 2 + json_len_entries(users, names \ {u})

\* len(json.dumps(users)) with the default separators.
json_len(users) ==
    IF DOMAIN users = {} THEN 2 ELSE json_len_entries(users, DOMAIN users)

EmptyUsers == [u \in {} |-> None]
NoFile == [state |-> "absent", data |-> EmptyUsers, size |-> 0]
TruncatedFile == [state |-> "empty", data |-> EmptyUsers, size |-> 0]
JsonFile(users) == [state |-> "json", data |-> users, size |-> json_len(users)]

\* load_users: {} when the file is absent; json.load raises on an empty or
\* corrupt file.
load_users(file) ==
    IF file.state = "absent" THEN [raises |-> FALSE, users |-> EmptyUsers]
    ELSE IF file.state = "json" THEN [raises |-> FALSE, users |-> file.data]
    ELSE [raises |-> TRUE, users |-> EmptyUsers]

\* open(USERS_FILE, 'w'): creates or truncates.
open_w(file) == TruncatedFile

\* json.dump + close: the buffered text is written at offset 0 of this
\* writer's descriptor; bytes another writer put beyond its end stay.
dump_close(file, users) ==
    IF json_len(users) >= file.size THEN JsonFile(users)
    ELSE [state |-> "corrupt", data |-> EmptyUsers, size |-> file.size]

user_record(username, hashed, t, created_by) ==
    [username |-> username, password_hash |-> hashed,
     created_at |-> t, created_by |-> created_by]

Put(users, u, rec) ==
    [x \in DOMAIN users \cup {u} |-> IF x = u THEN rec ELSE users[x]]

\* ------------------------------------------------------ state
VARIABLES
    now,          \* datetime.utcnow(), in hours
    boots,        \* how many times the process has started
    users_file,   \* /tmp/users.json
    temp_script,  \* /tmp/temp_script.py
    issued,       \* tokens returned by login
    github_calls, \* per request: requests it sent to api.github.com
    upstream,     \* per request: what api.github.com answered
    pc,           \* per request: position in the handler
    req,          \* per request: route and inputs
    current_user, \* per request: what verify_token returned
    users,        \* per request: the mapping create_user loaded and extended
    result,       \* per request: the value execute_code is about to return
    fd,           \* per request: the inode its open script descriptor refers to
    child,        \* per request: the child process of subprocess.run
    resp          \* per request: the HTTP response

vars == <<now, boots, users_file, temp_script, issued, github_calls, upstream,
          pc, req, current_user, users, result, fd, child, resp>>

\* The script path names no file, or a file (inode `ino`, the request that
\* created it) holding `text`, `size` bytes long.
NoScript == [exists |-> FALSE, ino |-> 0, text |-> "", size |-> 0]
Garbled == "<garbled>"
NoSuchFile == "<no such file>"
Missing == "<missing>"
NoToken == [sub |-> None, exp |-> 0, sig |-> None]
NoReq == [op |-> "none", token |-> NoToken, username |-> None, password |-> None,
          code |-> None, timeout |-> 0]
NoResult == [success |-> FALSE, output |-> "", error |-> "", return_code |-> 0,
             executed_by |-> Missing]
NoResp == [status |-> 0, detail |-> "", token |-> NoToken, username |-> None,
           result |-> NoResult]
NoChild == [state |-> "none", prog |-> None, rc |-> 0, out |-> "", err |-> ""]

\* What one request got from api.github.com: the status of the root
\* listing, whether it holds the day's folder, the status of the second
\* request (NotAsked: the request was not sent).
NotAsked == -1
NoAnswers == [root |-> NotAsked, found |-> FALSE, leaf |-> NotAsked]

Init ==
    /\ now = 0
    /\ boots = 0
    /\ users_file = NoFile
    /\ temp_script = NoScript
    /\ issued = {}
    /\ github_calls = [r \in AllReqs |-> 0]
    /\ upstream = [r \in AllReqs |-> NoAnswers]
    /\ pc = [r \in AllReqs |-> "idle"]
    /\ req = [r \in AllReqs |-> NoReq]
    /\ current_user = [r \in AllReqs |-> None]
    /\ users = [r \in AllReqs |-> EmptyUsers]
    /\ result = [r \in AllReqs |-> NoResult]
    /\ fd = [r \in AllReqs |-> 0]
    /\ child = [r \in AllReqs |-> NoChild]
    /\ resp = [r \in AllReqs |-> NoResp]

InFlight(r) == pc[r] \notin {"idle", "done"}
Quiescent == \A r \in AllReqs : ~InFlight(r)

\* Tokens a client can present: the ones login handed out, and tokens
\* built by hand: well signed and live, well signed and expiring now, well
\* signed without a subject, and signed with another key (live or expired).
CraftedTokens ==
    { jwt_encode([sub |-> "admin", exp |-> now + 1], SECRET_KEY),
      jwt_encode([sub |-> "admin", exp |-> now], SECRET_KEY),
      jwt_encode([sub |-> None, exp |-> now + 1], SECRET_KEY),
      jwt_encode([sub |-> "admin", exp |-> now + 1], OTHER_KEY),
      jwt_encode([sub |-> "admin", exp |-> now], OTHER_KEY) }
Tokens == issued \cup CraftedTokens

\* A well signed, live token for a username the store may not hold (signed
\* with the default SECRET_KEY, or issued before /tmp/users.json was lost).
\* The two routes that do nothing but authenticate and write the store are
\* given these as well.
StaleTokens == { jwt_encode([sub |-> "bob", exp |-> now + 1], SECRET_KEY) }

\* The request arrives: its route and inputs.
Arrive(r, op, token, username, password, code, timeout) ==
    req' = [req EXCEPT ![r] = [op |-> op, token |-> token, username |-> username,
                               password |-> password, code |-> code,
                               timeout |-> timeout]]

Respond(r, response) ==
    /\ resp' = [resp EXCEPT ![r] = response]
    /\ pc' = [pc EXCEPT ![r] = "done"]

HttpError(status, detail) == [NoResp EXCEPT !.status = status, !.detail = detail]

\* ------------------------------------------------------ clock
Tick ==
    /\ now + TickHours <= MaxTime
    /\ now' = now + TickHours
    /\ UNCHANGED <<boots, users_file, temp_script, issued, github_calls, upstream,
                   pc, req, current_user, users, result, fd, child, resp>>

\* ------------------------------------------------------ startup (lines 55-73)
\* The module body runs init_default_user() before the server accepts
\* requests; the file in /tmp outlives the process.
\* Variant: the default account is written without looking at the store.
init_default_user_always ==
    /\ boots < MaxBoots
    /\ Quiescent
    /\ ~load_users(users_file).raises
    /\ boots' = boots + 1
    /\ \E salt \in Salts :
         users_file' = dump_close(open_w(users_file),
             Put(EmptyUsers, default_username,
                 user_record(default_username, hashpw(default_password, salt), now, None)))
    /\ UNCHANGED <<now, temp_script, issued, github_calls, upstream,
                   pc, req, current_user, users, result, fd, child, resp>>

\* (A file left corrupt makes json.load raise at import: no start.)
init_default_user ==
    /\ boots < MaxBoots
    /\ Quiescent
    /\ ~load_users(users_file).raises
    /\ boots' = boots + 1
    /\ LET loaded == load_users(users_file).users
       IN  IF DOMAIN loaded = {}                               \* `if not users`
           THEN \E salt \in Salts :
                  users_file' = dump_close(open_w(users_file),
                      Put(loaded, default_username,
                          user_record(default_username,
                                      hashpw(default_password, salt), now, None)))
           ELSE users_file' = users_file
    /\ UNCHANGED <<now, temp_script, issued, github_calls, upstream,
                   pc, req, current_user, users, result, fd, child, resp>>

\* ------------------------------------------------------ /api/auth/login (lines 154-171)
\* Variant: an unknown username gets a message of its own.
login_telling(r) ==
    /\ pc[r] = "idle" /\ boots > 0
    /\ \E username \in Usernames, password \in Passwords :
         LET loaded == load_users(users_file)
             known == ~loaded.raises /\ username \in DOMAIN loaded.users
             access_token == create_access_token([sub |-> username], now)
         IN  /\ Arrive(r, "login", NoToken, username, password, None, 0)
             /\ IF loaded.raises
                 THEN /\ Respond(r, HttpError(500, "Internal Server Error"))
                      /\ UNCHANGED issued
                 ELSE IF ~known
                 THEN /\ Respond(r, HttpError(401, "Unknown username"))
                      /\ UNCHANGED issued
                 ELSE IF ~verify_password(password, loaded.users[username].password_hash)
                 THEN /\ Respond(r, HttpError(401, "Incorrect username or password"))
                      /\ UNCHANGED issued
                 ELSE /\ Respond(r, [NoResp EXCEPT !.status = 200,
                                        !.token = access_token, !.username = username])
                      /\ issued' = issued \cup {access_token}
    /\ UNCHANGED <<now, boots, users_file, temp_script, github_calls, upstream,
                   current_user, users, result, fd, child>>

login(r) ==
    /\ pc[r] = "idle" /\ boots > 0
    /\ \E username \in Usernames, password \in Passwords :
         LET loaded == load_users(users_file)
             known == ~loaded.raises /\ username \in DOMAIN loaded.users
             access_token == create_access_token([sub |-> username], now)
         IN  /\ Arrive(r, "login", NoToken, username, password, None, 0)
             /\ IF loaded.raises
                 THEN /\ Respond(r, HttpError(500, "Internal Server Error"))
                      /\ UNCHANGED issued
                 ELSE IF ~known \/ ~verify_password(password,
                                       loaded.users[username].password_hash)
                 THEN /\ Respond(r, HttpError(401, "Incorrect username or password"))
                      /\ UNCHANGED issued
                 ELSE /\ Respond(r, [NoResp EXCEPT !.status = 200,
                                        !.token = access_token, !.username = username])
                      /\ issued' = issued \cup {access_token}
    /\ UNCHANGED <<now, boots, users_file, temp_script, github_calls, upstream,
                   current_user, users, result, fd, child>>

\* ------------------------------------------------------ /api/auth/verify (lines 192-195)
\* Variant: the username of the token is looked up in the credential store.
verify_auth_lookup(r) ==
    /\ pc[r] = "idle" /\ boots > 0
    /\ \E token \in Tokens \cup StaleTokens :
         LET v == verify_token(token, now)
             loaded == load_users(users_file)
         IN  /\ Arrive(r, "verify_auth", token, None, None, None, 0)
             /\ current_user' = [current_user EXCEPT ![r] = v.username]
             /\ IF v.status # 200
                 THEN Respond(r, HttpError(v.status, v.detail))
                 ELSE IF loaded.raises \/ v.username \notin DOMAIN loaded.users
                 THEN Respond(r, HttpError(401, "Invalid token"))
                 ELSE Respond(r, [NoResp EXCEPT !.status = 200, !.username = v.username])
    /\ UNCHANGED <<now, boots, users_file, temp_script, issued, github_calls, upstream,
                   users, result, fd, child>>

verify_auth(r) ==
    /\ pc[r] = "idle" /\ boots > 0
    /\ \E token \in Tokens \cup StaleTokens :
         LET v == verify_token(token, now)
         IN  /\ Arrive(r, "verify_auth", token, None, None, None, 0)
             /\ current_user' = [current_user EXCEPT ![r] = v.username]
             /\ IF v.status # 200
                 THEN Respond(r, HttpError(v.status, v.detail))
                 ELSE Respond(r, [NoResp EXCEPT !.status = 200, !.username = v.username])
    /\ UNCHANGED <<now, boots, users_file, temp_script, issued, github_calls, upstream,
                   users, result, fd, child>>

\* ------------------------------------------------------ /api/auth/create-user (lines 173-190)
\* Variant: no check that the username is free.
create_user_unchecked(r) ==
    /\ pc[r] = "idle" /\ boots > 0
    /\ \E token \in Tokens \cup StaleTokens, username \in Usernames,
          password \in Passwords, salt \in Salts :
         LET v == verify_token(token, now)
             loaded == load_users(users_file)
         IN  /\ Arrive(r, "create_user", token, username, password, None, 0)
             /\ current_user' = [current_user EXCEPT ![r] = v.username]
             /\ IF v.status # 200
                 THEN Respond(r, HttpError(v.status, v.detail)) /\ UNCHANGED users
                 ELSE IF loaded.raises
                 THEN Respond(r, HttpError(500, "Internal Server Error")) /\ UNCHANGED users
                 ELSE /\ users' = [users EXCEPT ![r] =
                            Put(loaded.users, username,
                                user_record(username, hashpw(password, salt), now, v.username))]
                      /\ pc' = [pc EXCEPT ![r] = "save_users_open"]
                      /\ UNCHANGED resp
    /\ UNCHANGED <<now, boots, users_file, temp_script, issued, github_calls, upstream,
                   result, fd, child>>

\* Lines 174-187: verify the token, load the store, refuse a taken name,
\* build the new record in the local mapping.
create_user(r) ==
    /\ pc[r] = "idle" /\ boots > 0
    /\ \E token \in Tokens \cup StaleTokens, username \in Usernames,
          password \in Passwords, salt \in Salts :
         LET v == verify_token(token, now)
             loaded == load_users(users_file)
         IN  /\ Arrive(r, "create_user", token, username, password, None, 0)
             /\ current_user' = [current_user EXCEPT ![r] = v.username]
             /\ IF v.status # 200
                 THEN Respond(r, HttpError(v.status, v.detail)) /\ UNCHANGED users
                 ELSE IF loaded.raises
                 THEN Respond(r, HttpError(500, "Internal Server Error")) /\ UNCHANGED users
                 ELSE IF username \in DOMAIN loaded.users
                 THEN Respond(r, HttpError(400, "Username already exists")) /\ UNCHANGED users
                 ELSE /\ users' = [users EXCEPT ![r] =
                            Put(loaded.users, username,
                                user_record(username, hashpw(password, salt), now, v.username))]
                      /\ pc' = [pc EXCEPT ![r] = "save_users_open"]
                      /\ UNCHANGED resp
    /\ UNCHANGED <<now, boots, users_file, temp_script, issued, github_calls, upstream,
                   result, fd, child>>

\* Line 52 inside create_user's save_users: open(USERS_FILE, 'w').
save_users_open(r) ==
    /\ pc[r] = "save_users_open"
    /\ users_file' = open_w(users_file)
    /\ pc' = [pc EXCEPT ![r] = "save_users_dump"]
    /\ UNCHANGED <<now, boots, temp_script, issued, github_calls, upstream,
                   req, current_user, users, result, fd, child, resp>>

\* Line 53 and the end of the with block, then line 190.
save_users_dump(r) ==
    /\ pc[r] = "save_users_dump"
    /\ users_file' = dump_close(users_file, users[r])
    /\ Respond(r, [NoResp EXCEPT !.status = 200, !.detail = "created successfully",
                                 !.username = req[r].username])
    /\ UNCHANGED <<now, boots, temp_script, issued, github_calls, upstream,
                   req, current_user, users, result, fd, child>>

\* ------------------------------------------------------ /api/execute (lines 297-334)
\* Program texts a client submits, and what the interpreter does with a
\* text: print and exit 0, exit 2, or sleep far beyond any timeout.
HelloCode == "print('hello')"
Exit2Code == "import sys; sys.exit(2)"
SleepCode == "import time; time.sleep(3600)"
Codes == {HelloCode, Exit2Code, SleepCode}
CodeLen(code) == CASE code = HelloCode -> 14 [] code = Exit2Code -> 23
                   [] code = SleepCode -> 29 [] OTHER -> 0
Timeouts == {DEFAULT_TIMEOUT, 0, -1}     \* CodeExecutionRequest.timeout: any int

ProgramRun(text) ==
    CASE text = HelloCode -> [halts |-> TRUE, rc |-> 0, out |-> "hello\n", err |-> ""]
      [] text = Exit2Code -> [halts |-> TRUE, rc |-> 2, out |-> "", err |-> ""]
      [] text = SleepCode -> [halts |-> FALSE, rc |-> 0, out |-> "", err |-> ""]
      [] text = "" -> [halts |-> TRUE, rc |-> 0, out |-> "", err |-> ""]
      [] text = NoSuchFile -> [halts |-> TRUE, rc |-> 2, out |-> "",
                               err |-> "can't open file"]
      [] OTHER -> [halts |-> TRUE, rc |-> 1, out |-> "", err |-> "SyntaxError"]

\* f"Execution timed out after {request.timeout} seconds"
TimeoutMessage(timeout) ==
    CASE timeout = 10 -> "Execution timed out after 10 seconds"
      [] timeout = 0 -> "Execution timed out after 0 seconds"
      [] timeout = -1 -> "Execution timed out after -1 seconds"
      [] OTHER -> "Execution timed out after N seconds"

\* Variant: every completed run counts as a success.
completed_result_always_ok(rc, out, err, user) ==
    [success |-> TRUE, output |-> out, error |-> err, return_code |-> rc,
     executed_by |-> user]

\* Lines 311-317.
completed_result(rc, out, err, user) ==
    [success |-> (rc = 0), output |-> out, error |-> err, return_code |-> rc,
     executed_by |-> user]

\* Lines 319-324.
timeout_result(timeout) ==
    [success |-> FALSE, output |-> "", error |-> TimeoutMessage(timeout),
     return_code |-> -1, executed_by |-> Missing]

\* Lines 326-331.
failure_result(description) ==
    [success |-> FALSE, output |-> "", error |-> description,
     return_code |-> -1, executed_by |-> Missing]

\* Lines 298-301: verify the token, then open("/tmp/temp_script.py", "w"),
\* which truncates the file at that path or creates one.
execute_code(r) ==
    /\ pc[r] = "idle" /\ boots > 0
    /\ \E token \in Tokens, code \in Codes, timeout \in Timeouts :
         LET v == verify_token(token, now)
         IN  /\ Arrive(r, "execute", token, None, None, code, timeout)
             /\ current_user' = [current_user EXCEPT ![r] = v.username]
             /\ IF v.status # 200
                 THEN /\ Respond(r, HttpError(v.status, v.detail))
                      /\ UNCHANGED <<temp_script, fd>>
                 ELSE /\ temp_script' =
                            [exists |-> TRUE,
                             ino |-> IF temp_script.exists THEN temp_script.ino ELSE r,
                             text |-> "", size |-> 0]
                      /\ fd' = [fd EXCEPT ![r] = temp_script'.ino]
                      /\ pc' = [pc EXCEPT ![r] = "write_script"]
                      /\ UNCHANGED resp
    /\ UNCHANGED <<now, boots, users_file, issued, github_calls, upstream, users, result, child>>

\* Line 302 and the end of the with block: the text goes to offset 0 of the
\* file this descriptor refers to, which the path may no longer name.
write_script(r) ==
    /\ pc[r] = "write_script"
    /\ temp_script' =
         IF temp_script.exists /\ temp_script.ino = fd[r]
         THEN IF CodeLen(req[r].code) >= temp_script.size
              THEN [temp_script EXCEPT !.text = req[r].code,
                                       !.size = CodeLen(req[r].code)]
              ELSE [temp_script EXCEPT !.text = Garbled]
         ELSE temp_script
    /\ pc' = [pc EXCEPT ![r] = "spawn"]
    /\ UNCHANGED <<now, boots, users_file, issued, github_calls, upstream,
                   req, current_user, users, result, fd, child, resp>>

\* Lines 304-309, Popen: the interpreter is started, or the start fails
\* (OSError) and line 325 catches it.
spawn(r) ==
    /\ pc[r] = "spawn"
    /\ \/ /\ child' = [child EXCEPT ![r] = [NoChild EXCEPT !.state = "started"]]
          /\ pc' = [pc EXCEPT ![r] = "wait"]
          /\ UNCHANGED result
       \/ /\ result' = [result EXCEPT ![r] = failure_result("OSError")]
          /\ pc' = [pc EXCEPT ![r] = "cleanup"]
          /\ UNCHANGED child
    /\ UNCHANGED <<now, boots, users_file, temp_script, issued, github_calls, upstream,
                   req, current_user, users, fd, resp>>

\* Variant: the child never finds the script.
child_open_nofile(r) ==
    /\ child[r].state = "started"
    /\ child' = [child EXCEPT ![r] =
                   [NoChild EXCEPT !.state = "running", !.prog = NoSuchFile]]
    /\ UNCHANGED <<now, boots, users_file, temp_script, issued, github_calls, upstream,
                   pc, req, current_user, users, result, fd, resp>>

\* The child interpreter opens the path given on its command line and
\* reads the text there; without a file it will exit with status 2.
child_open(r) ==
    /\ child[r].state = "started"
    /\ child' = [child EXCEPT ![r] =
                   [NoChild EXCEPT !.state = "running",
                                   !.prog = IF temp_script.exists
                                            THEN temp_script.text ELSE NoSuchFile]]
    /\ UNCHANGED <<now, boots, users_file, temp_script, issued, github_calls, upstream,
                   pc, req, current_user, users, result, fd, resp>>

\* The program ends on its own; with a timeout <= 0 the timer has expired
\* before the child could.
child_exit(r) ==
    /\ child[r].state = "running"
    /\ ProgramRun(child[r].prog).halts
    /\ req[r].timeout > 0
    /\ LET run == ProgramRun(child[r].prog)
       IN  child' = [child EXCEPT ![r] =
                       [state |-> "exited", prog |-> child[r].prog,
                        rc |-> run.rc, out |-> run.out, err |-> run.err]]
    /\ UNCHANGED <<now, boots, users_file, temp_script, issued, github_calls, upstream,
                   pc, req, current_user, users, result, fd, resp>>

\* subprocess.run returns the CompletedProcess; lines 311-317.
wait_returns(r) ==
    /\ pc[r] = "wait"
    /\ child[r].state = "exited"
    /\ result' = [result EXCEPT ![r] =
                    completed_result(child[r].rc, child[r].out, child[r].err,
                                     current_user[r])]
    /\ pc' = [pc EXCEPT ![r] = "cleanup"]
    /\ UNCHANGED <<now, boots, users_file, temp_script, issued, github_calls, upstream,
                   req, current_user, users, fd, child, resp>>

\* Variant: TimeoutExpired is raised without killing the child.
wait_times_out_nokill(r) ==
    /\ pc[r] = "wait"
    /\ child[r].state \in {"started", "running"}
    /\ result' = [result EXCEPT ![r] = timeout_result(req[r].timeout)]
    /\ pc' = [pc EXCEPT ![r] = "cleanup"]
    /\ UNCHANGED <<now, boots, users_file, temp_script, issued, github_calls, upstream,
                   req, current_user, users, fd, child, resp>>

\* The timeout expires first: subprocess.run kills the child, waits for it
\* and re-raises TimeoutExpired; lines 318-324.
wait_times_out(r) ==
    /\ pc[r] = "wait"
    /\ child[r].state \in {"started", "running"}
    /\ child' = [child EXCEPT ![r].state = "killed"]
    /\ result' = [result EXCEPT ![r] = timeout_result(req[r].timeout)]
    /\ pc' = [pc EXCEPT ![r] = "cleanup"]
    /\ UNCHANGED <<now, boots, users_file, temp_script, issued, github_calls, upstream,
                   req, current_user, users, fd, resp>>

\* Variant: the finally block removes nothing.
cleanup_keeps(r) ==
    /\ pc[r] = "cleanup"
    /\ pc' = [pc EXCEPT ![r] = "return"]
    /\ UNCHANGED <<now, boots, users_file, temp_script, issued, github_calls, upstream,
                   req, current_user, users, result, fd, child, resp>>

\* Line 333: os.path.exists.
cleanup(r) ==
    /\ pc[r] = "cleanup"
    /\ pc' = [pc EXCEPT ![r] = IF temp_script.exists THEN "remove" ELSE "return"]
    /\ UNCHANGED <<now, boots, users_file, temp_script, issued, github_calls, upstream,
                   req, current_user, users, result, fd, child, resp>>

\* Line 334: os.remove; FileNotFoundError leaves the finally block in place
\* of the value being returned.
remove(r) ==
    /\ pc[r] = "remove"
    /\ IF temp_script.exists
       THEN /\ temp_script' = NoScript
            /\ pc' = [pc EXCEPT ![r] = "return"]
            /\ UNCHANGED resp
       ELSE /\ Respond(r, HttpError(500, "Internal Server Error"))
            /\ UNCHANGED temp_script
    /\ UNCHANGED <<now, boots, users_file, issued, github_calls, upstream,
                   req, current_user, users, result, fd, child>>

\* The finally block is done: the handler returns the value of its branch.
return_result(r) ==
    /\ pc[r] = "return"
    /\ Respond(r, [NoResp EXCEPT !.status = 200, !.result = result[r]])
    /\ UNCHANGED <<now, boots, users_file, temp_script, issued, github_calls, upstream,
                   req, current_user, users, result, fd, child>>

\* ------------------------------------------------------ repository proxy (lines 135-151)
\* What api.github.com answers: a status, or no answer at all
\* (requests raises ConnectionError), written 0.
UpstreamAnswers == {200, 404, 403, 0}

\* fetch_repo_contents: the exception it raises, as the status it carries
\* (200: it returns the listing; 0: ConnectionError).
fetch_repo_contents(answer) == answer

\* get_file_content: any status but 200 is reported as 404.
get_file_content(answer) ==
    IF answer = 0 THEN 0 ELSE IF answer # 200 THEN 404 ELSE 200

BrowseError(status) ==
    IF status = 404 THEN HttpError(404, "not found")
    ELSE IF status = 0 THEN HttpError(500, "ConnectionError")
    ELSE HttpError(status, "GitHub API error")

\* /api/days (lines 214-235): every exception, HTTPException included,
\* is caught at line 234 and becomes a 500.
list_days(r) ==
    /\ pc[r] = "idle" /\ boots > 0
    /\ \E token \in Tokens, answer \in UpstreamAnswers :
         LET v == verify_token(token, now)
         IN  /\ Arrive(r, "list_days", token, None, None, None, 0)
             /\ current_user' = [current_user EXCEPT ![r] = v.username]
             /\ IF v.status # 200
                 THEN Respond(r, HttpError(v.status, v.detail)) /\ UNCHANGED <<github_calls, upstream>>
                 ELSE /\ github_calls' = [github_calls EXCEPT ![r] = 1]
                      /\ upstream' = [upstream EXCEPT ![r].root = answer]
                      /\ IF fetch_repo_contents(answer) = 200
                         THEN Respond(r, [NoResp EXCEPT !.status = 200])
                         ELSE Respond(r, HttpError(500, "str(e)"))
    /\ UNCHANGED <<now, boots, users_file, temp_script, issued,
                   users, result, fd, child>>

\* /api/days/{day_number}/files (lines 237-266): HTTPException passes
\* through line 263; anything else becomes a 500.
list_files_in_day(r) ==
    /\ pc[r] = "idle" /\ boots > 0
    /\ \E token \in Tokens, root \in UpstreamAnswers, found \in BOOLEAN,
          folder \in UpstreamAnswers :
         LET v == verify_token(token, now)
         IN  /\ Arrive(r, "list_files_in_day", token, None, None, None, 0)
             /\ current_user' = [current_user EXCEPT ![r] = v.username]
             /\ IF v.status # 200
                 THEN Respond(r, HttpError(v.status, v.detail)) /\ UNCHANGED <<github_calls, upstream>>
                 ELSE IF fetch_repo_contents(root) # 200
                 THEN /\ github_calls' = [github_calls EXCEPT ![r] = 1]
                      /\ upstream' = [upstream EXCEPT ![r].root = root]
                      /\ Respond(r, BrowseError(fetch_repo_contents(root)))
                 ELSE IF ~found
                 THEN /\ github_calls' = [github_calls EXCEPT ![r] = 1]
                      /\ upstream' = [upstream EXCEPT ![r].root = root]
                      /\ Respond(r, HttpError(404, "not found"))
                 ELSE /\ github_calls' = [github_calls EXCEPT ![r] = 2]
                      /\ upstream' = [upstream EXCEPT ![r] =
                                         [root |-> root, found |-> TRUE, leaf |-> folder]]
                      /\ IF fetch_repo_contents(folder) = 200
                         THEN Respond(r, [NoResp EXCEPT !.status = 200])
                         ELSE Respond(r, BrowseError(fetch_repo_contents(folder)))
    /\ UNCHANGED <<now, boots, users_file, temp_script, issued,
                   users, result, fd, child>>

\* /api/file/{day_number}/{filename} (lines 268-295).
get_file(r) ==
    /\ pc[r] = "idle" /\ boots > 0
    /\ \E token \in Tokens, root \in UpstreamAnswers, found \in BOOLEAN,
          file \in UpstreamAnswers :
         LET v == verify_token(token, now)
         IN  /\ Arrive(r, "get_file", token, None, None, None, 0)
             /\ current_user' = [current_user EXCEPT ![r] = v.username]
             /\ IF v.status # 200
                 THEN Respond(r, HttpError(v.status, v.detail)) /\ UNCHANGED <<github_calls, upstream>>
                 ELSE IF fetch_repo_contents(root) # 200
                 THEN /\ github_calls' = [github_calls EXCEPT ![r] = 1]
                      /\ upstream' = [upstream EXCEPT ![r].root = root]
                      /\ Respond(r, BrowseError(fetch_repo_contents(root)))
                 ELSE IF ~found
                 THEN /\ github_calls' = [github_calls EXCEPT ![r] = 1]
                      /\ upstream' = [upstream EXCEPT ![r].root = root]
                      /\ Respond(r, HttpError(404, "not found"))
                 ELSE /\ github_calls' = [github_calls EXCEPT ![r] = 2]
                      /\ upstream' = [upstream EXCEPT ![r] =
                                         [root |-> root, found |-> TRUE, leaf |-> file]]
                      /\ IF get_file_content(file) = 200
                         THEN Respond(r, [NoResp EXCEPT !.status = 200])
                         ELSE Respond(r, BrowseError(get_file_content(file)))
    /\ UNCHANGED <<now, boots, users_file, temp_script, issued,
                   users, result, fd, child>>

\* ------------------------------------------------------ / and /health (lines 198-212, 336-338)
read_root(r) ==
    /\ pc[r] = "idle" /\ boots > 0
    /\ Arrive(r, "read_root", NoToken, None, None, None, 0)
    /\ Respond(r, [NoResp EXCEPT !.status = 200])
    /\ UNCHANGED <<now, boots, users_file, temp_script, issued, github_calls, upstream,
                   current_user, users, result, fd, child>>

health_check(r) ==
    /\ pc[r] = "idle" /\ boots > 0
    /\ Arrive(r, "health_check", NoToken, None, None, None, 0)
    /\ Respond(r, [NoResp EXCEPT !.status = 200, !.detail = "healthy"])
    /\ UNCHANGED <<now, boots, users_file, temp_script, issued, github_calls, upstream,
                   current_user, users, result, fd, child>>

\* ------------------------------------------------------ specifications
\* The process starts once; Restart starts it again between requests.
Startup == boots = 0 /\ init_default_user
Restart == boots > 0 /\ init_default_user

\* Tokens over time: login and the verify route with the clock running.
NextAuth ==
    \/ Startup
    \/ Tick
    \/ \E r \in LoginReqs : login(r)
    \/ \E r \in VerifyReqs : verify_auth(r)

SpecAuth == Init /\ [][NextAuth]_vars

\* The credential store: concurrent create_user and login calls.
NextStore ==
    \/ Startup
    \/ Restart
    \/ \E r \in LoginReqs : login(r)
    \/ \E r \in CreateReqs : create_user(r)
    \/ \E r \in CreateReqs : save_users_open(r)
    \/ \E r \in CreateReqs : save_users_dump(r)

SpecStore == Init /\ [][NextStore]_vars

\* The execution engine: concurrent execute calls and their children.
ExecStep(r) ==
    \/ execute_code(r)
    \/ write_script(r)
    \/ spawn(r)
    \/ child_open(r)
    \/ child_exit(r)
    \/ wait_returns(r)
    \/ wait_times_out(r)
    \/ cleanup(r)
    \/ remove(r)
    \/ return_result(r)

NextExec ==
    \/ Startup
    \/ \E r \in ExecReqs : ExecStep(r)

SpecExec == Init /\ [][NextExec]_vars

\* The gateway: every route, one request at a time; a request that has
\* been answered is forgotten before the next one arrives.
Sequential(r) == \A q \in AllReqs \ {r} : pc[q] = "idle"

Forget(r) ==
    /\ pc[r] = "done"
    /\ pc' = [pc EXCEPT ![r] = "idle"]
    /\ req' = [req EXCEPT ![r] = NoReq]
    /\ current_user' = [current_user EXCEPT ![r] = None]
    /\ users' = [users EXCEPT ![r] = EmptyUsers]
    /\ result' = [result EXCEPT ![r] = NoResult]
    /\ fd' = [fd EXCEPT ![r] = 0]
    /\ child' = [child EXCEPT ![r] = NoChild]
    /\ resp' = [resp EXCEPT ![r] = NoResp]
    /\ github_calls' = [github_calls EXCEPT ![r] = 0]
    /\ upstream' = [upstream EXCEPT ![r] = NoAnswers]
    /\ UNCHANGED <<now, boots, users_file, temp_script, issued>>

NextGateway ==
    \/ Startup
    \/ \E r \in LoginReqs : Sequential(r) /\ login(r)
    \/ \E r \in VerifyReqs : Sequential(r) /\ verify_auth(r)
    \/ \E r \in CreateReqs : Sequential(r) /\ create_user(r)
    \/ \E r \in CreateReqs : save_users_open(r)
    \/ \E r \in CreateReqs : save_users_dump(r)
    \/ \E r \in ExecReqs : Sequential(r) /\ ExecStep(r)
    \/ \E r \in BrowseReqs : Sequential(r) /\ list_days(r)
    \/ \E r \in BrowseReqs : Sequential(r) /\ list_files_in_day(r)
    \/ \E r \in BrowseReqs : Sequential(r) /\ get_file(r)
    \/ \E r \in PublicReqs : Sequential(r) /\ read_root(r)
    \/ \E r \in PublicReqs : Sequential(r) /\ health_check(r)
    \/ \E r \in AllReqs : Forget(r)

SpecGateway == Init /\ [][NextGateway]_vars

\* Worker threads, children and timers all make progress.
SpecExecFair ==
    /\ SpecExec
    /\ \A r \in ExecReqs :
         /\ WF_vars(write_script(r)) /\ WF_vars(spawn(r))
         /\ WF_vars(child_open(r)) /\ WF_vars(child_exit(r))
         /\ WF_vars(wait_returns(r)) /\ WF_vars(wait_times_out(r))
         /\ WF_vars(cleanup(r)) /\ WF_vars(remove(r)) /\ WF_vars(return_result(r))

\* ====================================================== properties
\* A request whose handler starts in this step (the dependency verify_token
\* runs first, at time `now`).
Starts(r) == pc[r] = "idle" /\ pc'[r] # "idle"
Returns(r) == pc[r] # "done" /\ pc'[r] = "done"
Verifies(token) == verify_token(token, now).status = 200

\* ------------------------------------------------------ C3
\* C3: once create_user has returned success for (username, password), every
\* later login with that pair succeeds and its token verifies to that
\* username, whatever other create_user calls ran or are running.
C3_CreatedUserCanLogin ==
    [][\A l \in LoginReqs, c \in CreateReqs :
          ( /\ Starts(l)
            /\ pc[c] = "done" /\ resp[c].status = 200
            /\ req'[l].username = req[c].username
            /\ req'[l].password = req[c].password )
          => ( /\ resp'[l].status = 200
               /\ verify_token(resp'[l].token, now).status = 200
               /\ verify_token(resp'[l].token, now).username = req[c].username )]_vars

\* ------------------------------------------------------ C4
\* C4: an authenticated create_user whose username is already in the store
\* answers 400 "Username already exists" and leaves the store as it is.
C4_TakenUsernameRefused ==
    [][\A r \in CreateReqs :
          ( /\ Starts(r)
            /\ Verifies(req'[r].token)
            /\ users_file.state = "json"
            /\ req'[r].username \in DOMAIN users_file.data )
          => ( /\ pc'[r] = "done"
               /\ resp'[r].status = 400
               /\ resp'[r].detail = "Username already exists"
               /\ users_file' = users_file )]_vars

C4_Witness ==
    \E r \in CreateReqs :
        /\ pc[r] = "done" /\ resp[r].status = 400
        /\ users_file.state = "json"
        /\ req[r].username \in DOMAIN users_file.data
        /\ users_file.data[req[r].username].password_hash[2] # req[r].password

\* ------------------------------------------------------ C5
\* C5: login issues a token with sub = the login username and
\* exp = now + 24 h; a request bearing an issued token is verified as that
\* username while now < exp and refused with 401 "Token expired" from
\* now = exp on; nothing else ends an issued token's validity.
C5_TokenLifetime ==
    [][ /\ \A l \in LoginReqs :
             (Starts(l) /\ resp'[l].status = 200)
             => ( /\ resp'[l].token.sub = req'[l].username
                  /\ resp'[l].token.exp = now + ACCESS_TOKEN_EXPIRE_HOURS
                  /\ resp'[l].token.sig = SECRET_KEY
                  /\ resp'[l].token \in issued' )
        /\ \A r \in AllReqs \ LoginReqs :
             (Starts(r) /\ req'[r].token \in issued)
             => IF now < req'[r].token.exp
                THEN /\ current_user'[r] = req'[r].token.sub
                     /\ resp'[r].detail \notin {"Token expired", "Invalid token"}
                     /\ r \in VerifyReqs =>
                          (resp'[r].status = 200
                           /\ resp'[r].username = req'[r].token.sub)
                ELSE /\ pc'[r] = "done"
                     /\ resp'[r].status = 401
                     /\ resp'[r].detail = "Token expired"
        /\ issued \subseteq issued' ]_vars

C5_Witness ==
    \E r \in VerifyReqs :
        /\ pc[r] = "done" /\ req[r].token \in issued
        /\ req[r].token.exp = now
        /\ resp[r].status = 401 /\ resp[r].detail = "Token expired"

\* ------------------------------------------------------ C6
\* C6: a token whose signature does not verify, or that carries no subject,
\* is refused with 401 "Invalid token"; a well-signed token whose exp has
\* passed is refused with 401 "Token expired".
C6_InvalidTokenIs401 ==
    [][\A r \in VerifyReqs :
          Starts(r) =>
            LET token == req'[r].token
            IN  /\ ( \/ token.sig # SECRET_KEY
                     \/ (token.exp > now /\ token.sub = None) )
                   => (resp'[r].status = 401 /\ resp'[r].detail = "Invalid token")
                /\ (token.sig = SECRET_KEY /\ token.exp <= now)
                   => (resp'[r].status = 401 /\ resp'[r].detail = "Token expired")]_vars

\* ------------------------------------------------------ C10
\* C10: init_default_user on an empty store writes exactly one record, for
\* "admin"; on a non-empty store it changes nothing, so a second call in
\* sequence keeps the record (hash, created_at) the first call wrote.
C10_DefaultUserIdempotent ==
    [][boots' = boots + 1 =>
         IF DOMAIN load_users(users_file).users = {}
         THEN /\ users_file'.state = "json"
              /\ DOMAIN users_file'.data = {default_username}
              /\ users_file'.data[default_username].username = default_username
              /\ verify_password(default_password,
                                 users_file'.data[default_username].password_hash)
              /\ users_file'.data[default_username].created_at = now
         ELSE users_file' = users_file]_vars

C10_Witness ==
    /\ boots = 2
    /\ \A r \in AllReqs : pc[r] = "idle"
    /\ users_file.state = "json"
    /\ DOMAIN users_file.data = {default_username}

\* ------------------------------------------------------ C1
ProtectedReqs == AllReqs \ (LoginReqs \cup PublicReqs)

\* C1: a request to a protected route whose token does not verify is
\* answered 401 and its handler does nothing: no write to the credential
\* file, no script staged, no child started, no upstream call.
C1_UnverifiedIs401 ==
    [][\A r \in ProtectedReqs :
          (Starts(r) /\ ~Verifies(req'[r].token))
          => ( /\ pc'[r] = "done"
               /\ resp'[r].status = 401
               /\ UNCHANGED <<users_file, temp_script, child, github_calls, upstream>> )]_vars

\* ------------------------------------------------------ C2
\* C2: when an execute call returns, /tmp/temp_script.py does not exist,
\* in every interleaving of execute calls.
C2_NoScriptAtReturn ==
    [][\A r \in ExecReqs :
          (Returns(r) /\ pc[r] # "idle") => ~temp_script'.exists]_vars

\* ------------------------------------------------------ C7
\* The payload an execute call is returning or has returned.
Decided(r) == pc[r] \in {"cleanup", "remove", "return"}
              \/ (pc[r] = "done" /\ resp[r].status = 200)
Payload(r) == IF pc[r] = "done" THEN resp[r].result ELSE result[r]

C8_ExecutedByInEveryBranch ==
    \A r \in ExecReqs :
        (pc[r] = "done" /\ resp[r].status = 200)
        => resp[r].result.executed_by = current_user[r]

\* ------------------------------------------------------ C9
\* C9: every execute call that has started returns; a call about to return
\* the timeout payload has a child that is no longer running; and a child
\* is killed only by the expiry of its own call's timeout.
C9_CallsReturn ==
    /\ \A r \in ExecReqs : (pc[r] \notin {"idle", "done"}) ~> (pc[r] = "done")
    /\ [](\A r \in ExecReqs :
            (Decided(r) /\ Payload(r) = timeout_result(req[r].timeout))
            => child[r].state = "killed")
    /\ [][\A r \in ExecReqs :
            (child'[r].state = "killed" /\ child[r].state # "killed")
            => (pc[r] = "wait" /\ pc'[r] = "cleanup"
                /\ result'[r] = timeout_result(req[r].timeout))]_vars

C9_Witness ==
    \E r \in ExecReqs :
        /\ pc[r] = "done" /\ resp[r].status = 200
        /\ child[r].state = "killed" /\ child[r].prog = SleepCode
        /\ resp[r].result = timeout_result(DEFAULT_TIMEOUT)

\* ------------------------------------------------------ C11
\* The store as load_users returns it, when it can be loaded.
Loadable == ~load_users(users_file).raises
Stored == load_users(users_file).users
AbsentUser(u) == u \notin DOMAIN Stored
WrongPassword(u, p) ==
    u \in DOMAIN Stored /\ ~verify_password(p, Stored[u].password_hash)

\* C11: a login with an unknown username and a login with a known username
\* and a wrong password get one and the same response (401, same detail),
\* no token is issued and the store is left as it is.
C11_FailedLoginsAlike ==
    [][\A l \in LoginReqs :
          ( /\ Starts(l) /\ Loadable
            /\ \/ AbsentUser(req'[l].username)
               \/ WrongPassword(req'[l].username, req'[l].password) )
          => ( /\ pc'[l] = "done"
               /\ resp'[l] = HttpError(401, "Incorrect username or password")
               /\ issued' = issued
               /\ users_file' = users_file )]_vars

C11_Witness ==
    \E l \in LoginReqs :
        /\ pc[l] = "done" /\ resp[l].status = 401
        /\ req[l].username = "alice" /\ Loadable /\ AbsentUser("alice")
        /\ WrongPassword(default_username, req[l].password)

\* ------------------------------------------------------ C12
\* The repository proxy reported not-found to request r: an upstream 404,
\* or a root listing without the day's folder on the two routes that look
\* for one.
NotFoundUpstream(r) ==
    \/ upstream[r].root = 404
    \/ upstream[r].leaf = 404
    \/ /\ req[r].op \in {"list_files_in_day", "get_file"}
       /\ upstream[r].root = 200 /\ ~upstream[r].found

\* C12: on each of the three browsing routes a not-found condition reported
\* by the proxy is answered with HTTP 404, and a 500 is only given for
\* another kind of failure.
C12_NotFoundIs404 ==
    \A r \in BrowseReqs :
        (pc[r] = "done" /\ NotFoundUpstream(r)) => resp[r].status = 404

\* ------------------------------------------------------ C13
\* C13: the cleanup never replaces the result: an execute call that got past
\* verify_token returns HTTP 200 with the payload its try/except branch
\* fixed, also when the removal fails.
C13_CleanupKeepsResult ==
    [][\A r \in ExecReqs :
          (Returns(r) /\ pc[r] # "idle")
          => (resp'[r].status = 200 /\ resp'[r].result = result[r])]_vars

\* ------------------------------------------------------ C14
\* create_user call c has returned success; the record it wrote.
Created(c) == pc[c] = "done" /\ resp[c].status = 200
RecordOf(c) == users[c][req[c].username]

\* The store holds record rec under its username.
Holds(rec) ==
    Loadable /\ rec.username \in DOMAIN Stored /\ Stored[rec.username] = rec

\* C14: a record written by a create_user call that returned success is in
\* the store, with the password_hash, created_at and created_by it was
\* written with, in every later state in which the store can be read; and
\* of the create_user calls for one username at most one returns success.
C14_RecordsStay ==
    /\ \A c \in CreateReqs : (Created(c) /\ Loadable) => Holds(RecordOf(c))
    /\ \A c, d \in CreateReqs :
         (c # d /\ Created(c) /\ Created(d)) => req[c].username # req[d].username

\* ------------------------------------------------------ C15
\* Call c is inside save_users: it has opened the file and not yet closed it.
Saving(c) == pc[c] = "save_users_dump"
\* The mapping c loaded, before it added its own record.
Before(c) == [u \in DOMAIN users[c] \ {req[c].username} |-> users[c][u]]
\* Request r calls load_users in this step: login always does, create_user
\* once verify_token has passed.
Loads(r) ==
    /\ Starts(r)
    /\ r \in LoginReqs \/ (r \in CreateReqs /\ Verifies(req'[r].token))

\* C15: a load that runs while a save is under way returns a complete
\* mapping, the one from before the save or the one being saved; it never
\* finds the file empty, truncated or unparsable.
C15_LoadSeesWholeMapping ==
    [][\A r \in LoginReqs \cup CreateReqs :
          (Loads(r) /\ \E c \in CreateReqs : Saving(c))
          => ( /\ ~load_users(users_file).raises
               /\ \E c \in CreateReqs :
                    /\ Saving(c)
                    /\ load_users(users_file).users \in {Before(c), users[c]} )]_vars

\* ------------------------------------------------------ C16
\* The child of call r has opened the script path (a child killed at once
\* never did); what it found there is not the text r submitted.
Opened(r) == child[r].state \in {"running", "exited", "killed"}
             /\ child[r].prog # NoChild.prog
Foreign(r) == Opened(r) /\ child[r].prog # req[r].code

\* C16: overlapping execute calls are not isolated, and the shared path is
\* the cause: a child runs something other than its own call's text only
\* when another execute call has opened the script path, and then it
\* runs that call's text, a truncated or mixed text, or finds no file. The
\* witness is the interleaving in which both happen.
C16_SharedPathBreaksIsolation ==
    \A r \in ExecReqs :
        Foreign(r) =>
          \E o \in ExecReqs \ {r} :
              /\ fd[o] # 0
              /\ child[r].prog \in {req[o].code, "", Garbled, NoSuchFile}

C16_Witness ==
    \E r, o \in ExecReqs :
        /\ r # o
        /\ Opened(r) /\ child[r].prog = req[o].code /\ req[o].code # req[r].code
        /\ Opened(o) /\ child[o].prog = NoSuchFile

\* ------------------------------------------------------ C17
\* C17: what verify_token gives a protected request is a function of the
\* token and the current time alone, whatever the credential store holds
\* (the token's username included or not) and without writing it: the
\* request is refused exactly when that function refuses, and the username
\* it returns is the caller's identity in created_by and executed_by.
C17_VerifyIsStateless ==
    [][ /\ \A r \in ProtectedReqs :
             Starts(r) =>
               LET v == verify_token(req'[r].token, now)
               IN  /\ current_user'[r] = v.username
                   /\ users_file' = users_file
                   /\ v.status # 200 =>
                        (pc'[r] = "done" /\ resp'[r] = HttpError(v.status, v.detail))
                   /\ v.status = 200 =>
                        ~(pc'[r] = "done" /\ resp'[r].status = 401)
                   /\ (r \in VerifyReqs /\ v.status = 200) =>
                        (resp'[r].status = 200 /\ resp'[r].username = v.username)
                   /\ (r \in CreateReqs /\ pc'[r] = "save_users_open") =>
                        users'[r][req'[r].username].created_by = v.username
        /\ \A r \in ExecReqs :
             (result'[r] # result[r] /\ result'[r].executed_by # Missing)
             => result'[r].executed_by = req[r].token.sub
      ]_vars

C17_Witness ==
    \E c \in CreateReqs :
        /\ Created(c) /\ req[c].token.sub = "bob"
        /\ Loadable /\ "bob" \notin DOMAIN Stored
        /\ Stored[req[c].username].created_by = "bob"

\* ------------------------------------------------------ C18
\* C18: every execute call that reaches the engine has a timeout of at
\* least one second: no child is started or waited on with a timeout of 0
\* or below.
C18_TimeoutPositive ==
    \A r \in ExecReqs :
        (pc[r] = "wait" \/ child[r].state # "none")
        => req[r].timeout > 0

\* ------------------------------------------------------ C19
\* The child of call r is over: it exited, was killed at the timeout, or
\* could not be started.
ChildOver(r) ==
    \/ child[r].state \in {"exited", "killed"}
    \/ child[r].state = "none" /\ result[r] = failure_result("OSError")

\* C19: whenever no execute call is in progress /tmp/temp_script.py does
\* not exist, for every interleaving of execute calls; and in the steps of
\* one call the script is written before the child is started and the path
\* is removed only after that call's child has exited, timed out or failed
\* to start.
C19_ArtifactBoundedByCalls ==
    /\ []((\A r \in ExecReqs : ~InFlight(r)) => ~temp_script.exists)
    /\ [][ /\ \A r \in ExecReqs :
                (child[r].state = "none" /\ child'[r].state # "none")
                => (pc[r] = "spawn" /\ fd[r] # 0)
           /\ (temp_script.exists /\ ~temp_script'.exists)
              => \E r \in ExecReqs :
                     pc[r] = "remove" /\ pc'[r] = "return" /\ ChildOver(r)
         ]_vars

C19_Witness ==
    /\ ~temp_script.exists
    /\ \A r \in ExecReqs : pc[r] = "done" /\ resp[r].status = 200
    /\ \E r, o \in ExecReqs :
         /\ r # o
         /\ child[r].state = "exited" /\ child[r].prog = req[o].code
         /\ req[o].code # req[r].code
         /\ child[o].state = "killed"

====
